---- MODULE Spec2Model ----
(***************************************************************************)
(* Model of src/v1/src/app.js: an AWS Lambda handler that renders a        *)
(* CodePipeline state-change event as a Slack message and POSTs it to a    *)
(* webhook whose URL is read from Secrets Manager on the first invocation  *)
(* of a process and cached in the module-level variable webhookUrl.        *)
(*                                                                         *)
(* One process instance is modelled.  The Lambda runtime enters a process  *)
(* with one invocation at a time, so an invocation starts only when no     *)
(* other is in flight (pc = "idle").  An uncaught exception ends the       *)
(* process (pc = "crashed"); a response that never ends leaves the         *)
(* invocation waiting for the runtime's timeout (pc = "stalled").          *)
(*                                                                         *)
(* JavaScript values: strings are TLA+ strings; undefined and null are the *)
(* two sentinels below, which no input string equals.                      *)
(***************************************************************************)
EXTENDS Integers, Sequences, FiniteSets, TLC

Undefined == "<undefined>"
Null == "<null>"

\* Bounds of the model.
MaxInvocations == 3
MaxChunks == 1

VARIABLES
    webhookUrlSecretArn,  \* process.env.WEBHOOK_URL_SECRET_ARN, read once
    slackChannel,         \* process.env.CHANNEL, read once
    webhookUrl,           \* module-level cache of the webhook URL
    secret,               \* module-level: last SecretString received
    decodedBinarySecret,  \* module-level: last decoded SecretBinary
    pc,                   \* position of the invocation in flight
    invocations,          \* number of invocations started in this process
    event,                \* the event of the current invocation
    lookup,               \* getSecretValue of this invocation: NoLookup, "pending" or its result
    secretCalls,          \* getSecretValue calls made by this invocation
    posts,                \* the POST requests issued by this invocation, in order
    res,                  \* the HTTP response of this invocation's POST, or NoResponse
    chunks,               \* body chunks received so far
    ended,                \* TRUE once the response's 'end' event has fired
    cb,                   \* arguments of the completion callback calls of this invocation
    thrown                \* the uncaught exception that ended the process, or NoError

vars == <<webhookUrlSecretArn, slackChannel, webhookUrl, secret, decodedBinarySecret,
          pc, invocations, event, lookup, secretCalls, posts, res, chunks, ended, cb, thrown>>

moduleVars == <<webhookUrl, secret, decodedBinarySecret>>
envVars == <<webhookUrlSecretArn, slackChannel>>

\* A null err argument (also: nothing thrown) and a null data argument.
NoError == [code |-> Null]
NoData == [none |-> TRUE]

NoLookup == [kind |-> "none", err |-> NoError, data |-> NoData]
PendingLookup == [kind |-> "pending", err |-> NoError, data |-> NoData]
NoResponse == [statusCode |-> 0, statusMessage |-> ""]
NoEvent == [none |-> TRUE]

(***************************************************************************)
(* JavaScript primitives used by the code.                                 *)
(***************************************************************************)

\* ToBoolean on the values the code tests: undefined, null and "" are falsy.
Truthy(v) == v # Undefined /\ v # Null /\ v # ""

\* ToString as applied by a template literal `${v}`.
TemplateStr(v) ==
    IF v = Undefined THEN "undefined"
    ELSE IF v = Null THEN "null"
    ELSE v

(***************************************************************************)
(* new Buffer(s, 'base64').toString('ascii').  A base64 text is modelled   *)
(* as the sequence of its UTF-16 code units; the decoder reads the low     *)
(* byte of each unit.                                                      *)
(***************************************************************************)
LowByte(unit) == unit % 256

\* The bytes the decoder accepts as the digit of each of the 64 values:
\* 'A'..'Z' (65..90), 'a'..'z' (97..122), '0'..'9' (48..57), then '+' (43) and
\* the URL-safe '-' (45) for 62, '/' (47) and the URL-safe '_' (95) for 63.
B64Chars ==
    [ i \in 1..64 |->
        IF i <= 26 THEN { 64 + i }
        ELSE IF i <= 52 THEN { 70 + i }
        ELSE IF i <= 62 THEN { i - 5 }
        ELSE IF i = 63 THEN { 43, 45 }
        ELSE { 47, 95 } ]

IsB64Char(c) == \E i \in 1..64 : LowByte(c) \in B64Chars[i]

B64Value(c) == (CHOOSE i \in 1..64 : LowByte(c) \in B64Chars[i]) - 1

\* The decoder stops at the first '=' (61) and skips units that are no digit.
RECURSIVE B64Sextets(_)
B64Sextets(s) ==
    IF s = <<>> THEN <<>>
    ELSE IF LowByte(Head(s)) = 61 THEN <<>>
    ELSE IF IsB64Char(Head(s)) THEN <<B64Value(Head(s))>> \o B64Sextets(Tail(s))
    ELSE B64Sextets(Tail(s))

RECURSIVE B64Bytes(_)
B64Bytes(v) ==
    IF Len(v) >= 4 THEN
        << v[1] * 4 + (v[2] \div 16),
           (v[2] % 16) * 16 + (v[3] \div 4),
           (v[3] % 4) * 64 + v[4] >> \o B64Bytes(SubSeq(v, 5, Len(v)))
    ELSE IF Len(v) = 3 THEN
        << v[1] * 4 + (v[2] \div 16), (v[2] % 16) * 16 + (v[3] \div 4) >>
    ELSE IF Len(v) = 2 THEN
        << v[1] * 4 + (v[2] \div 16) >>
    ELSE <<>>

\* Characters of code 32..95 and 97..126; 'ascii' decoding keeps the low seven
\* bits.  Control characters and the grave accent (96), which a TLA+ string
\* cannot hold, are written as named placeholders.
AsciiLow ==
    << " ","!","\"","#","$","%","&","'","(",")","*","+",",","-",".","/",
       "0","1","2","3","4","5","6","7","8","9",":",";","<","=",">","?",
       "@","A","B","C","D","E","F","G","H","I","J","K","L","M","N","O",
       "P","Q","R","S","T","U","V","W","X","Y","Z","[","\\","]","^","_" >>

AsciiHigh ==
    << "a","b","c","d","e","f","g","h","i","j","k","l","m","n","o",
       "p","q","r","s","t","u","v","w","x","y","z","{","|","}","~" >>

AsciiChar(b) ==
    LET c == b % 128
    IN  IF c >= 32 /\ c <= 95 THEN AsciiLow[c - 31]
        ELSE IF c >= 97 /\ c <= 126 THEN AsciiHigh[c - 96]
        ELSE IF c = 96 THEN "<grave>"
        ELSE "<ctl>"

RECURSIVE AsciiString(_)
AsciiString(bytes) ==
    IF bytes = <<>> THEN ""
    ELSE AsciiChar(Head(bytes)) \o AsciiString(Tail(bytes))

DecodeBase64Ascii(s) == AsciiString(B64Bytes(B64Sextets(s)))

(***************************************************************************)
(* Inputs.                                                                 *)
(***************************************************************************)

\* detail.state values: the six named states, two case variants, an
\* unrecognised state and a missing one.
EventStates ==
    { "STARTED", "RESUMED", "FAILED", "SUPERSEDED", "CANCELED", "SUCCEEDED",
      "failed", "Succeeded", "ABANDONED", Undefined }

\* message.time is carried as the epoch milliseconds that
\* new Date(message.time).getTime() yields for it.
Events ==
    { [ detailType |-> "CodePipeline Action Execution State Change",
        region |-> "us-east-1",
        time |-> 1500,
        detail |-> [ action |-> a, stage |-> st, pipeline |-> "P", state |-> s ] ] :
      a \in { Undefined, "Build" }, st \in { Undefined, "S" }, s \in EventStates }

\* The five error codes the getSecretValue callback rethrows.
NamedErrorCodes ==
    { "DecryptionFailureException", "InternalServiceErrorException",
      "InvalidParameterException", "InvalidRequestException",
      "ResourceNotFoundException" }

\* Error codes of Secrets Manager that the callback does not name.
OtherErrorCodes == { "ThrottlingException" }

TextSecrets == { "hooks.slack.com/services/T1", "h.co/a" }

\* As code units: "aC5jby9i" and "YS5pbw==", base64 of "h.co/b" and of
\* "a.io"; "aC5jbz9-", URL-safe base64 of "h.co?~"; and the units U+0161
\* U+0143 U+0135 U+016A U+0162 U+0179 U+0139 U+0169, whose low bytes spell
\* "aC5jby9i".
BinarySecrets ==
    { << 97, 67, 53, 106, 98, 121, 57, 105 >>,
      << 89, 83, 53, 112, 98, 119, 61, 61 >>,
      << 97, 67, 53, 106, 98, 122, 57, 45 >>,
      << 353, 323, 309, 362, 354, 377, 313, 361 >> }

\* The (err, data) pairs getSecretValue hands to its callback.
LookupResults ==
    { [ err |-> [ code |-> c ], data |-> NoData ] : c \in NamedErrorCodes \cup OtherErrorCodes }
    \cup { [ err |-> NoError, data |-> [ SecretString |-> t ] ] : t \in TextSecrets }
    \cup { [ err |-> NoError, data |-> [ SecretBinary |-> b ] ] : b \in BinarySecrets }

\* Status line of the webhook's response.
Responses ==
    { [ statusCode |-> 200, statusMessage |-> "OK" ],
      [ statusCode |-> 399, statusMessage |-> "" ],
      [ statusCode |-> 400, statusMessage |-> "Bad Request" ],
      [ statusCode |-> 404, statusMessage |-> "Not Found" ],
      [ statusCode |-> 499, statusMessage |-> "" ],
      [ statusCode |-> 500, statusMessage |-> "Internal Server Error" ],
      [ statusCode |-> 503, statusMessage |-> "Service Unavailable" ],
      [ statusCode |-> 503, statusMessage |-> "Backend fetch failed" ] }

BodyChunks == { "ok" }

\* Errors the request emits when no response arrives.
TransportErrors == { "ENOTFOUND", "ECONNRESET" }

(***************************************************************************)
(* processEvent: rendering.                                                *)
(***************************************************************************)

\* Variant of Color: the break after the FAILED case is missing, so FAILED
\* runs on into the SUPERSEDED / CANCELED case.
ColorFailedFallsThrough(state) ==
    CASE state = "STARTED" -> "#0073bb"
      [] state = "RESUMED" -> "#0073bb"
      [] state \in { "FAILED", "SUPERSEDED", "CANCELED" } -> "#d5dbdb"
      [] state = "SUCCEEDED" -> "#1d8102"
      [] OTHER -> "#d5dbdb"

\* switch(state) with strict equality; the defaults are gray and the
\* exclamation icon.
Color(state) ==
    CASE state = "STARTED" -> "#0073bb"
      [] state = "RESUMED" -> "#0073bb"
      [] state = "FAILED" -> "#d13212"
      [] state \in { "SUPERSEDED", "CANCELED" } -> "#d5dbdb"
      [] state = "SUCCEEDED" -> "#1d8102"
      [] OTHER -> "#d5dbdb"

Icon(state) ==
    CASE state = "STARTED" -> ":arrows_counterclockwise:"
      [] state = "RESUMED" -> ":arrows_counterclockwise:"
      [] state = "FAILED" -> ":x:"
      [] state \in { "SUPERSEDED", "CANCELED" } -> ":grey_exclamation:"
      [] state = "SUCCEEDED" -> ":heavy_check_mark:"
      [] OTHER -> ":grey_exclamation:"

\* Milliseconds divided by 1000, kept exact as whole seconds and thousandths.
EpochSeconds(ms) == [ whole |-> ms \div 1000, thousandths |-> ms % 1000 ]

TitleLink(message) ==
    "https://console.aws.amazon.com/codepipeline/home?region=" \o TemplateStr(message.region)
        \o "#/view/" \o TemplateStr(message.detail.pipeline)

Footer(message) == TemplateStr(message.detailType) \o " | " \o TemplateStr(message.region)

\* The three fallback texts, titles and body texts.
ActionFallback(message) ==
    "The action \"" \o TemplateStr(message.detail.action) \o "\" of the stage \""
        \o TemplateStr(message.detail.stage) \o "\" for CodePipeline \""
        \o TemplateStr(message.detail.pipeline) \o "\" in region \""
        \o TemplateStr(message.region) \o "\" has " \o TemplateStr(message.detail.state) \o "."

StageFallback(message) ==
    "The stage \"" \o TemplateStr(message.detail.stage) \o "\" for CodePipeline \""
        \o TemplateStr(message.detail.pipeline) \o "\" in region \""
        \o TemplateStr(message.region) \o "\" has " \o TemplateStr(message.detail.state) \o "."

PipelineFallback(message) ==
    "The CodePipeline \"" \o TemplateStr(message.detail.pipeline) \o "\" in region \""
        \o TemplateStr(message.region) \o "\" has " \o TemplateStr(message.detail.state) \o "."

StageTitle(message) ==
    TemplateStr(message.detail.pipeline) \o " | " \o TemplateStr(message.detail.stage)

PipelineTitle(message) == TemplateStr(message.detail.pipeline)

ActionText(message) ==
    Icon(message.detail.state) \o " " \o TemplateStr(message.detail.action)
        \o " *" \o TemplateStr(message.detail.state) \o "*"

StateText(message) ==
    Icon(message.detail.state) \o " *" \o TemplateStr(message.detail.state) \o "*"

\* Variant of Attachment: the stage test comes before the action test.
AttachmentStageFirst(message) ==
    [ fallback |-> IF Truthy(message.detail.stage) THEN StageFallback(message)
                   ELSE IF Truthy(message.detail.action) THEN ActionFallback(message)
                   ELSE PipelineFallback(message),
      color |-> Color(message.detail.state),
      title |-> IF Truthy(message.detail.stage) THEN StageTitle(message)
                ELSE IF Truthy(message.detail.action) THEN StageTitle(message)
                ELSE PipelineTitle(message),
      title_link |-> TitleLink(message),
      text |-> IF Truthy(message.detail.stage) THEN StateText(message)
               ELSE IF Truthy(message.detail.action) THEN ActionText(message)
               ELSE StateText(message),
      footer |-> Footer(message),
      mrkdwn_in |-> << "text" >>,
      ts |-> EpochSeconds(message.time) ]

\* The single attachment of slackMessage, by the if / else-if / else on
\* action and stage.
Attachment(message) ==
    [ fallback |-> IF Truthy(message.detail.action) THEN ActionFallback(message)
                   ELSE IF Truthy(message.detail.stage) THEN StageFallback(message)
                   ELSE PipelineFallback(message),
      color |-> Color(message.detail.state),
      title |-> IF Truthy(message.detail.action) THEN StageTitle(message)
                ELSE IF Truthy(message.detail.stage) THEN StageTitle(message)
                ELSE PipelineTitle(message),
      title_link |-> TitleLink(message),
      text |-> IF Truthy(message.detail.action) THEN ActionText(message)
               ELSE StateText(message),
      footer |-> Footer(message),
      mrkdwn_in |-> << "text" >>,
      ts |-> EpochSeconds(message.time) ]

SlackMessage(message, channel) ==
    [ channel |-> channel, attachments |-> << Attachment(message) >> ]

(***************************************************************************)
(* postMessage: the request it issues.                                     *)
(***************************************************************************)

\* JSON.stringify leaves out a property whose value is undefined.
JsonStringify(msg) ==
    IF msg.channel = Undefined
    THEN [ attachments |-> msg.attachments ]
    ELSE [ channel |-> msg.channel, attachments |-> msg.attachments ]

\* The request options are url.parse(webhookUrl) with the method and headers
\* set; the body is the serialised message.
PostRequest(url, msg) ==
    [ url |-> url,
      method |-> "POST",
      contentType |-> "application/json",
      body |-> JsonStringify(msg) ]

(***************************************************************************)
(* processEvent: the response callback, and the pieces of exports.handler. *)
(***************************************************************************)

\* Variant of CallbackArg: a 4xx response is reported as an error too.
CallbackArgClientErrorFails(response) ==
    IF response.statusCode < 400 THEN Null
    ELSE "Server error when processing message: " \o ToString(response.statusCode)
             \o " - " \o response.statusMessage

\* Variant of CallbackArg: the error text names the URL the message was
\* posted to.
CallbackArgNamesUrl(response) ==
    IF response.statusCode < 400 THEN Null
    ELSE IF response.statusCode < 500 THEN Null
    ELSE "Server error when processing message: " \o ToString(response.statusCode)
             \o " - " \o response.statusMessage \o " (" \o webhookUrl \o ")"

\* The argument processEvent hands to the completion callback for a response.
CallbackArg(response) ==
    IF response.statusCode < 400 THEN Null
    ELSE IF response.statusCode < 500 THEN Null
    ELSE "Server error when processing message: " \o ToString(response.statusCode)
             \o " - " \o response.statusMessage

\* Variant of HandlerBranch: the secret is looked up whenever an identifier is
\* configured, whether or not the URL is cached.
HandlerBranchAlwaysLookup(url, arn) ==
    IF Truthy(arn) THEN "lookup"
    ELSE IF Truthy(url) THEN "cached"
    ELSE "unset"

\* Variant of HandlerBranch: the identifier is tested against undefined only,
\* so an empty identifier is looked up.
HandlerBranchEmptyArn(url, arn) ==
    IF Truthy(url) THEN "cached"
    ELSE IF arn # Undefined THEN "lookup"
    ELSE "unset"

\* The branch exports.handler takes.
HandlerBranch(url, arn) ==
    IF Truthy(url) THEN "cached"
    ELSE IF Truthy(arn) THEN "lookup"
    ELSE "unset"

\* Variant of Rethrows: the last branch of the if chain is missing.
RethrowsWithoutNotFound(code) ==
    \/ code = "DecryptionFailureException"
    \/ code = "InternalServiceErrorException"
    \/ code = "InvalidParameterException"
    \/ code = "InvalidRequestException"

\* The error codes for which the getSecretValue callback executes throw err.
Rethrows(code) ==
    \/ code = "DecryptionFailureException"
    \/ code = "InternalServiceErrorException"
    \/ code = "InvalidParameterException"
    \/ code = "InvalidRequestException"
    \/ code = "ResourceNotFoundException"

\* The module-level secret after the callback's else branch.
SecretAfter(data, old) ==
    IF "SecretString" \in DOMAIN data THEN data.SecretString ELSE old

\* The module-level decodedBinarySecret after the callback's else branch.
DecodedAfter(data, old) ==
    IF "SecretString" \in DOMAIN data THEN old ELSE DecodeBase64Ascii(data.SecretBinary)

\* Variant of ResolvedUrl: the scheme is http.
ResolvedUrlPlainHttp(sec, decoded) == "http://" \o TemplateStr(sec)

\* webhookUrl = `https://${secret}`
ResolvedUrl(sec, decoded) == "https://" \o TemplateStr(sec)

(***************************************************************************)
(* The state machine.                                                      *)
(***************************************************************************)

Init ==
    /\ webhookUrlSecretArn \in { Undefined, "", "arn:aws:secretsmanager:hook" }
    /\ slackChannel \in { Undefined, "#builds" }
    /\ webhookUrl = Undefined
    /\ secret = Undefined
    /\ decodedBinarySecret = Undefined
    /\ pc = "idle"
    /\ invocations = 0
    /\ event = NoEvent
    /\ lookup = NoLookup
    /\ secretCalls = 0
    /\ posts = << >>
    /\ res = NoResponse
    /\ chunks = << >>
    /\ ended = FALSE
    /\ cb = << >>
    /\ thrown = NoError

\* Variant of Handler: the lookup branch calls processEvent at once instead of
\* in the lookup's callback.
HandlerEagerProcess ==
    /\ pc = "idle"
    /\ invocations < MaxInvocations
    /\ \E e \in Events :
        /\ event' = e
        /\ invocations' = invocations + 1
        /\ res' = NoResponse
        /\ chunks' = << >>
        /\ ended' = FALSE
        /\ thrown' = NoError
        /\ CASE HandlerBranch(webhookUrl, webhookUrlSecretArn) = "cached" ->
                  /\ posts' = << PostRequest(webhookUrl, SlackMessage(e, slackChannel)) >>
                  /\ lookup' = NoLookup
                  /\ secretCalls' = 0
                  /\ cb' = << >>
                  /\ pc' = "posting"
             [] HandlerBranch(webhookUrl, webhookUrlSecretArn) = "lookup" ->
                  /\ posts' = << PostRequest(ResolvedUrl(secret, decodedBinarySecret),
                                             SlackMessage(e, slackChannel)) >>
                  /\ lookup' = PendingLookup
                  /\ secretCalls' = 1
                  /\ cb' = << >>
                  /\ pc' = "lookup"
             [] OTHER ->
                  /\ posts' = << >>
                  /\ lookup' = NoLookup
                  /\ secretCalls' = 0
                  /\ cb' = << "Hook URL has not been set." >>
                  /\ pc' = "idle"
    /\ UNCHANGED << moduleVars, envVars >>

\* exports.handler(event, context, callback), up to its first suspension.
Handler ==
    /\ pc = "idle"
    /\ invocations < MaxInvocations
    /\ \E e \in Events :
        /\ event' = e
        /\ invocations' = invocations + 1
        /\ res' = NoResponse
        /\ chunks' = << >>
        /\ ended' = FALSE
        /\ thrown' = NoError
        /\ CASE HandlerBranch(webhookUrl, webhookUrlSecretArn) = "cached" ->
                  \* processEvent(event, callback)
                  /\ posts' = << PostRequest(webhookUrl, SlackMessage(e, slackChannel)) >>
                  /\ lookup' = NoLookup
                  /\ secretCalls' = 0
                  /\ cb' = << >>
                  /\ pc' = "posting"
             [] HandlerBranch(webhookUrl, webhookUrlSecretArn) = "lookup" ->
                  \* client.getSecretValue({SecretId: webhookUrlSecretArn}, ...)
                  /\ posts' = << >>
                  /\ lookup' = PendingLookup
                  /\ secretCalls' = 1
                  /\ cb' = << >>
                  /\ pc' = "lookup"
             [] OTHER ->
                  /\ posts' = << >>
                  /\ lookup' = NoLookup
                  /\ secretCalls' = 0
                  /\ cb' = << "Hook URL has not been set." >>
                  /\ pc' = "idle"
    /\ UNCHANGED << moduleVars, envVars >>

\* The callback of getSecretValue, called with (err, data).
GetSecretValueCallback ==
    /\ pc = "lookup"
    /\ \E r \in LookupResults :
        /\ lookup' = [ kind |-> "returned", err |-> r.err, data |-> r.data ]
        /\ IF r.err # NoError /\ Rethrows(r.err.code)
           THEN \* throw err: an uncaught exception
                /\ thrown' = r.err
                /\ pc' = "crashed"
                /\ UNCHANGED << moduleVars, posts >>
           ELSE \* an unnamed error code falls out of the if chain; a result
                \* sets secret or decodedBinarySecret; both reach the
                \* assignment of webhookUrl and the call of processEvent
                /\ secret' = IF r.err # NoError THEN secret ELSE SecretAfter(r.data, secret)
                /\ decodedBinarySecret' =
                       IF r.err # NoError THEN decodedBinarySecret
                       ELSE DecodedAfter(r.data, decodedBinarySecret)
                /\ webhookUrl' = ResolvedUrl(secret', decodedBinarySecret')
                /\ posts' = Append(posts, PostRequest(webhookUrl', SlackMessage(event, slackChannel)))
                /\ pc' = "posting"
                /\ UNCHANGED thrown
    /\ UNCHANGED << envVars, invocations, event, secretCalls, res, chunks, ended, cb >>

\* Variant of Response: postMessage's callback is called from the response
\* callback, before the body has been received.
ResponseCallsBack ==
    /\ pc = "posting"
    /\ \E r \in Responses :
        /\ res' = r
        /\ cb' = Append(cb, CallbackArg(r))
    /\ pc' = "receiving"
    /\ UNCHANGED << envVars, moduleVars, invocations, event, lookup, secretCalls,
                    posts, chunks, ended, thrown >>

\* https.request's response callback: the status line has arrived.
Response ==
    /\ pc = "posting"
    /\ \E r \in Responses : res' = r
    /\ pc' = "receiving"
    /\ UNCHANGED << envVars, moduleVars, invocations, event, lookup, secretCalls,
                    posts, chunks, ended, cb, thrown >>

\* res.on('data', chunk => chunks.push(chunk))
Data ==
    /\ pc = "receiving"
    /\ Len(chunks) < MaxChunks
    /\ \E c \in BodyChunks : chunks' = Append(chunks, c)
    /\ UNCHANGED << envVars, moduleVars, pc, invocations, event, lookup, secretCalls,
                    posts, res, ended, cb, thrown >>

\* Variant of End: a 5xx response drops the cached URL before the error is
\* reported.
EndInvalidatesCache ==
    /\ pc = "receiving"
    /\ ended' = TRUE
    /\ cb' = Append(cb, CallbackArg(res))
    /\ pc' = "idle"
    /\ webhookUrl' = IF res.statusCode >= 500 THEN Undefined ELSE webhookUrl
    /\ UNCHANGED << envVars, secret, decodedBinarySecret, invocations, event, lookup,
                    secretCalls, posts, res, chunks, thrown >>

\* Variant of End: a 4xx or 5xx response is answered by posting the message
\* again instead of completing.
EndRetries ==
    /\ pc = "receiving"
    /\ IF res.statusCode >= 400
       THEN /\ posts' = Append(posts, posts[Len(posts)])
            /\ pc' = "posting"
            /\ chunks' = << >>
            /\ UNCHANGED << ended, cb >>
       ELSE /\ ended' = TRUE
            /\ cb' = Append(cb, CallbackArg(res))
            /\ pc' = "idle"
            /\ UNCHANGED << posts, chunks >>
    /\ UNCHANGED << envVars, moduleVars, invocations, event, lookup, secretCalls,
                    res, thrown >>

\* res.on('end', ...): postMessage's callback, which is processEvent's
\* classification of the response, calls the completion callback.
End ==
    /\ pc = "receiving"
    /\ ended' = TRUE
    /\ cb' = Append(cb, CallbackArg(res))
    /\ pc' = "idle"
    /\ UNCHANGED << envVars, moduleVars, invocations, event, lookup, secretCalls,
                    posts, res, chunks, thrown >>

\* The errors the request can emit at a position: any of them while no
\* response has arrived, a connection reset while the body is being received.
TransportErrorsAt(position) ==
    IF position = "posting" THEN TransportErrors
    ELSE IF position = "receiving" THEN { "ECONNRESET" }
    ELSE { }

\* The request emits 'error', before any response or after the status line
\* and before the end of the body; postReq has no 'error' listener, so the
\* event is thrown as an uncaught exception.
RequestError ==
    /\ pc \in { "posting", "receiving" }
    /\ \E c \in TransportErrorsAt(pc) : thrown' = [ code |-> c ]
    /\ pc' = "crashed"
    /\ UNCHANGED << envVars, moduleVars, invocations, event, lookup, secretCalls,
                    posts, res, chunks, ended, cb >>

\* The connection closes without an error after the status line and before
\* the body's end: 'end' never fires and nothing else is listened for.
ResponseAborted ==
    /\ pc = "receiving"
    /\ pc' = "stalled"
    /\ UNCHANGED << envVars, moduleVars, invocations, event, lookup, secretCalls,
                    posts, res, chunks, ended, cb, thrown >>

Next ==
    \/ Handler
    \/ GetSecretValueCallback
    \/ Response
    \/ Data
    \/ End
    \/ RequestError
    \/ ResponseAborted

Spec == Init /\ [][Next]_vars

(***************************************************************************)
(* Properties.                                                             *)
(***************************************************************************)

\* The arguments the completion callback was called with in this invocation.
CallbackArgs == { cb[i] : i \in 1..Len(cb) }

\* C1: once processEvent has received the webhook's response, the completion
\* callback has been called once, with no error for a status below 400, with
\* no error for a status from 400 to 499, and with an error exactly for a
\* status of 500 or above.
C1_DeliveryClassification ==
    ended =>
        /\ Len(cb) = 1
        /\ (res.statusCode < 400 => cb[1] = Null)
        /\ (res.statusCode >= 400 /\ res.statusCode < 500 => cb[1] = Null)
        /\ (cb[1] # Null <=> res.statusCode >= 500)

\* C1 witness: a 4xx response was received and the callback got no error.
C1_Witness ==
    /\ ended
    /\ res.statusCode >= 400
    /\ res.statusCode < 500
    /\ cb = << Null >>

\* C2: an invocation that starts while the webhook URL is cached makes no
\* secret-store call, issues its POST to the cached URL, and makes no
\* secret-store call later in the invocation either.
C2_CachedUrlSkipsLookup ==
    [][ /\ (invocations' = invocations + 1 /\ Truthy(webhookUrl)) =>
              /\ secretCalls' = 0
              /\ lookup' = NoLookup
              /\ Len(posts') = 1
              /\ posts'[1].url = webhookUrl
              /\ webhookUrl' = webhookUrl
        /\ (invocations' = invocations) => secretCalls' = secretCalls ]_vars

\* C2 witness: a second or later invocation, after a 5xx outcome or any
\* other, has posted to the cached URL without a lookup.
C2_Witness ==
    /\ invocations >= 2
    /\ Truthy(webhookUrl)
    /\ secretCalls = 0
    /\ Len(posts) = 1
    /\ posts[1].url = webhookUrl
    /\ ended
    /\ res.statusCode = 200

\* C3: after a lookup that failed with an error code outside the five named
\* ones, no POST has been issued, no webhook URL is cached and the completion
\* callback has not been called with success.
C3_UnnamedLookupErrorIsFatal ==
    (lookup.kind = "returned" /\ lookup.err # NoError /\ lookup.err.code \notin NamedErrorCodes) =>
        /\ posts = << >>
        /\ webhookUrl = Undefined
        /\ Null \notin CallbackArgs

\* C4: after a lookup that returned the secret in binary form only, the cached
\* webhook URL and the URL of the POST are "https://" followed by the decoded
\* binary value.
C4_BinarySecretIsUsed ==
    (lookup.kind = "returned" /\ lookup.err = NoError /\ "SecretBinary" \in DOMAIN lookup.data) =>
        /\ webhookUrl = "https://" \o DecodeBase64Ascii(lookup.data.SecretBinary)
        /\ Len(posts) = 1
        /\ posts[1].url = webhookUrl

\* C5: when the POST has failed at the transport level, the completion
\* callback has been called once with an error value, as for a 5xx response.
C5_TransportFailureIsSignalled ==
    (Len(posts) = 1 /\ thrown.code \in TransportErrors) =>
        /\ Len(cb) = 1
        /\ cb[1] # Null

\* C6: after a lookup that failed with one of the five named error codes, that
\* same error has been thrown, no POST has been issued, the completion
\* callback has not been called and the webhook URL is still not cached.
C6_NamedLookupErrorRethrown ==
    (lookup.kind = "returned" /\ lookup.err.code \in NamedErrorCodes) =>
        /\ thrown = lookup.err
        /\ pc = "crashed"
        /\ posts = << >>
        /\ cb = << >>
        /\ webhookUrl = Undefined

\* C6 witness: the lookup failed with the not-found error and it was thrown.
C6_Witness ==
    /\ lookup.kind = "returned"
    /\ lookup.err = [ code |-> "ResourceNotFoundException" ]
    /\ thrown = lookup.err

\* C7: while no webhook URL is cached and no secret identifier is configured,
\* an invocation has called the completion callback once with the fixed error,
\* has made no secret-store call, has issued no POST, and is over.
C7_UnconfiguredFailsAtOnce ==
    (invocations > 0 /\ ~ Truthy(webhookUrl) /\ ~ Truthy(webhookUrlSecretArn)) =>
        /\ cb = << "Hook URL has not been set." >>
        /\ secretCalls = 0
        /\ lookup = NoLookup
        /\ posts = << >>
        /\ pc = "idle"
        /\ webhookUrl = Undefined

\* C7 witness: a second invocation of an unconfigured process has failed with
\* the fixed error.
C7_Witness ==
    /\ invocations >= 2
    /\ ~ Truthy(webhookUrlSecretArn)
    /\ webhookUrl = Undefined
    /\ cb = << "Hook URL has not been set." >>

\* C8: the cached webhook URL changes only from undefined to a URL; once it is
\* a URL no step changes it.
C8_CacheWrittenOnce ==
    [][ /\ Truthy(webhookUrl) => webhookUrl' = webhookUrl
        /\ webhookUrl' # webhookUrl => (webhookUrl = Undefined /\ Truthy(webhookUrl')) ]_vars

\* C8 witness: an invocation that started with the URL cached has ended with
\* a 5xx response and the URL is still cached.
C8_Witness ==
    /\ invocations >= 2
    /\ lookup = NoLookup
    /\ ended
    /\ res.statusCode >= 500
    /\ Truthy(webhookUrl)

\* C9: while the lookup of an invocation is pending no POST has been issued,
\* and no POST has been issued in an invocation while the URL is not cached:
\* in an invocation that looked the URL up, a POST exists only after the
\* lookup returned.
C9_LookupPrecedesDelivery ==
    /\ lookup.kind = "pending" => (posts = << >> /\ pc = "lookup")
    /\ ~ Truthy(webhookUrl) => posts = << >>
    /\ (secretCalls > 0 /\ posts # << >>) => lookup.kind = "returned"

\* C9 witness: an invocation that started uncached has posted after its
\* lookup returned a secret.
C9_Witness ==
    /\ secretCalls = 1
    /\ lookup.kind = "returned"
    /\ lookup.err = NoError
    /\ Len(posts) = 1
    /\ pc = "posting"

\* C10: an invocation issues at most one POST, and exactly one once it has
\* reached delivery, whatever the response is.
C10_SinglePost ==
    /\ Len(posts) <= 1
    /\ (pc \in { "posting", "receiving", "stalled" } \/ res # NoResponse \/ ended) => Len(posts) = 1

\* C10 witness: an invocation got a 4xx or 5xx response, has completed, and
\* has issued one POST.
C10_Witness ==
    /\ ended
    /\ res.statusCode >= 400
    /\ Len(posts) = 1

\* The attachment of the message this invocation posted.
PostedAttachment == posts[1].body.attachments[1]

\* The body text the specification gives for an icon and an event: the action
\* text is there exactly when the event has an action.
ExpectedText(icon, message) ==
    IF message.detail.action # Undefined
    THEN icon \o " " \o message.detail.action \o " *" \o TemplateStr(message.detail.state) \o "*"
    ELSE icon \o " *" \o TemplateStr(message.detail.state) \o "*"

\* The upper-case form of the state names among the inputs.
UpperCaseState(state) ==
    CASE state = "failed" -> "FAILED"
      [] state = "Succeeded" -> "SUCCEEDED"
      [] OTHER -> state

\* The severity table as documented: blue, red, gray and green, with the
\* cycle, X, warning and check icons.
DocumentedColor(state) ==
    IF state \in { "STARTED", "RESUMED" } THEN "#0073bb"
    ELSE IF state = "FAILED" THEN "#d13212"
    ELSE IF state = "SUCCEEDED" THEN "#1d8102"
    ELSE "#d5dbdb"

DocumentedIcon(state) ==
    IF state \in { "STARTED", "RESUMED" } THEN ":arrows_counterclockwise:"
    ELSE IF state = "FAILED" THEN ":x:"
    ELSE IF state = "SUCCEEDED" THEN ":heavy_check_mark:"
    ELSE ":grey_exclamation:"

\* C11: the posted message of an event whose state is a case variant of a
\* named state has the color and the icon of the upper-case state name.
C11_SeverityIgnoresCase ==
    posts # << >> =>
        /\ PostedAttachment.color = DocumentedColor(UpperCaseState(event.detail.state))
        /\ PostedAttachment.text =
               ExpectedText(DocumentedIcon(UpperCaseState(event.detail.state)), event)

\* C12: the posted message is the action variant when the event has an action
\* (title "pipeline | stage", body "icon action *state*"), else the stage
\* variant when it has a stage (same title, body "icon *state*"), else the
\* pipeline variant (title the pipeline name, body "icon *state*").
C12_VariantByFirstMatch ==
    posts # << >> =>
        LET d == event.detail
            icon == Icon(d.state)
            st == TemplateStr(d.state)
        IN  IF d.action # Undefined THEN
                /\ PostedAttachment.title = d.pipeline \o " | " \o TemplateStr(d.stage)
                /\ PostedAttachment.text = icon \o " " \o d.action \o " *" \o st \o "*"
            ELSE IF d.stage # Undefined THEN
                /\ PostedAttachment.title = d.pipeline \o " | " \o d.stage
                /\ PostedAttachment.text = icon \o " *" \o st \o "*"
            ELSE
                /\ PostedAttachment.title = d.pipeline
                /\ PostedAttachment.text = icon \o " *" \o st \o "*"

\* C12 witness: an event with an action and a stage was posted as the action
\* variant.
C12_Witness ==
    /\ posts # << >>
    /\ event.detail.action = "Build"
    /\ event.detail.stage = "S"
    /\ event.detail.state = "FAILED"
    /\ PostedAttachment.title = "P | S"
    /\ PostedAttachment.text = ":x: Build *FAILED*"

\* C13: the posted message of every event, whatever its state, has the
\* documented color and icon of that state, with gray and the warning icon for
\* an unnamed or missing state; an invocation that reaches processEvent always
\* posts a message.
C13_SeverityTableTotal ==
    /\ posts # << >> =>
           /\ PostedAttachment.color = DocumentedColor(event.detail.state)
           /\ PostedAttachment.text = ExpectedText(DocumentedIcon(event.detail.state), event)
    /\ pc \in { "posting", "receiving" } => Len(posts) = 1

\* C13 witness: an event without a state was posted with the default pair.
C13_Witness ==
    /\ posts # << >>
    /\ event.detail.state = Undefined
    /\ event.detail.action = Undefined
    /\ PostedAttachment.color = "#d5dbdb"
    /\ PostedAttachment.text = ":grey_exclamation: *undefined*"

\* The error text documented for a failed delivery: the HTTP status and the
\* status message.
DocumentedError(statusCode, statusMessage) ==
    "Server error when processing message: " \o ToString(statusCode) \o " - " \o statusMessage

\* C14: every error value handed to the completion callback is either the
\* fixed configuration error, in an invocation that posted nothing, or the text
\* determined by the status code and status message of the response alone; so
\* it is the same for any event and any webhook secret.
C14_ErrorFromStatusOnly ==
    \A i \in 1..Len(cb) :
        cb[i] # Null =>
            \/ (cb[i] = "Hook URL has not been set." /\ posts = << >>)
            \/ (res # NoResponse /\ cb[i] = DocumentedError(res.statusCode, res.statusMessage))

\* C14 witness: a later invocation of a process with a cached secret URL got a
\* 503 and handed over the text made of the status alone.
C14_Witness ==
    /\ invocations >= 2
    /\ Truthy(webhookUrl)
    /\ event.detail.action = "Build"
    /\ res.statusCode = 503
    /\ cb = << "Server error when processing message: 503 - Service Unavailable" >>

\* C15: the completion callback is called at most once in an invocation; once
\* the response has ended it has been called exactly once; while a POST is out
\* and the response has not ended it has not been called.
C15_CallbackOnceAfterEnd ==
    /\ Len(cb) <= 1
    /\ ended => Len(cb) = 1
    /\ (posts # << >> /\ ~ ended) => cb = << >>

\* C15 witness: a response with a body chunk has ended and the callback has
\* been called once.
C15_Witness ==
    /\ ended
    /\ Len(chunks) >= 1
    /\ Len(cb) = 1
    /\ pc = "idle"

\* C16: once a lookup has returned a text secret in this process, the cached
\* URL is "https://" followed by that secret, and every POST of the invocation
\* that looked it up and of every later invocation goes to that URL.
C16_TextSecretUrl ==
    /\ (lookup.kind = "returned" /\ lookup.err = NoError /\ "SecretString" \in DOMAIN lookup.data) =>
           /\ secret = lookup.data.SecretString
           /\ webhookUrl = "https://" \o lookup.data.SecretString
           /\ Len(posts) = 1
    /\ secret # Undefined =>
           /\ secret \in TextSecrets
           /\ webhookUrl = "https://" \o secret
           /\ \A i \in 1..Len(posts) : posts[i].url = "https://" \o secret

\* C16 witness: a later invocation has posted to the URL built from the text
\* secret an earlier invocation looked up.
C16_Witness ==
    /\ invocations >= 2
    /\ lookup = NoLookup
    /\ secret = "h.co/a"
    /\ webhookUrl = "https://h.co/a"
    /\ Len(posts) = 1
    /\ posts[1].url = "https://h.co/a"

TypeOK ==
    /\ pc \in { "idle", "lookup", "posting", "receiving", "crashed", "stalled" }
    /\ invocations \in 0..MaxInvocations
    /\ secretCalls \in 0..1
    /\ Len(posts) <= 1
    /\ Len(cb) <= 1

====
